---- MODULE Spec2Model ----
(***************************************************************************)
(* A state-machine model of the MCMC engine of BnpC, class CRP of          *)
(* src/libs/CRP.py: the cluster state (assignment, cells_per_cluster,      *)
(* parameters, DP_alpha), the Gibbs sweep, the split-merge move, the       *)
(* parameter and concentration updates, and the three run loops with the   *)
(* growable trace.                                                         *)
(*                                                                         *)
(* Abstractions.  The observation matrix and all floating-point densities  *)
(* are not represented: every random draw whose support the code does not  *)
(* restrict is a nondeterministic choice.  A parameter row is one value    *)
(* of ParamVals (0 is the all-zero row np.zeros leaves), the               *)
(* concentration is one of AlphaVals (FloorAlpha stands for 1 + EPSILON).  *)
(* A recorded trace entry is the number of completed MCMC steps of the     *)
(* state it was copied from, plus one (0 is the zero np.zeros leaves in    *)
(* an unused slot); the recorded log-likelihood is kept apart from it      *)
(* where its being exactly 0 matters.  An entry of the prior table is     *)
(* the pair of arguments of its two logarithms.  A candidate step size    *)
(* is an exact fraction.  The set written is a history of the rows of     *)
(* self.parameters: the ids whose row was written since the id last left  *)
(* the membership table.  params_MH_counter holds the two counts in the   *)
(* specifications that follow the parameter sampler and the value         *)
(* Unfollowed, any pair of counts, in the others.                          *)
(*                                                                         *)
(* Granularity.  The engine is single-threaded; pc is the position of its  *)
(* one thread.  A Gibbs sweep is one removal and one placement per cell,   *)
(* a split or merge is the draw of the clusters, the scans on the scratch  *)
(* state, the Metropolis-Hastings decision and the branch that follows     *)
(* it, so that the states inside a move are visible to the properties.     *)
(*                                                                         *)
(* Specifications.  Spec: do_MCMC_step called directly on engines of       *)
(* 1..MaxCells observations.  SpecRun: run() in its three modes on         *)
(* engines of 1..RunCells observations, followed for MaxRunSteps steps,    *)
(* with MemoryErrors in the trace extension.  SpecSteps: fixed-step runs   *)
(* of up to MaxFixedSteps steps on one observation.  SpecLugsail:          *)
(* convergence-based runs on one observation followed for LongSteps        *)
(* steps.  SpecLive: Spec on 1..LiveCells observations under fair          *)
(* scheduling.  SpecScan: split-merge steps whose last restricted Gibbs    *)
(* scan is followed element by element.  SpecCount, SpecStd, SpecAdapt:    *)
(* direct steps, update_MH_std and fixed-step runs with the counters of    *)
(* the parameter sampler followed.                                         *)
(***************************************************************************)
EXTENDS Integers, Sequences, FiniteSets, TLC

(* ---------------------------------------------------------------- bounds *)

\* largest number of observations (rows of data) of a modelled engine
MaxCells == 4

\* largest number of observations of an engine whose run() is modelled
RunCells == 2

\* largest number of features (columns of data)
MaxMuts == 1

\* largest step count requested of a fixed-step run on several
\* observations, and the last step explored of the other two run modes
MaxRunSteps == 3

\* largest step count requested of a fixed-step run on one observation
MaxFixedSteps == 10

\* the last step explored of a convergence-based run followed to its end
LongSteps == 1000

\* largest number of observations of an engine whose steps are followed
\* under fair scheduling
LiveCells == 3

\* largest number of observations of an engine whose restricted Gibbs
\* scans are followed element by element
ScanCells == 4

\* largest number of observations of an engine whose parameter sampler's
\* counters are followed through its steps
CountCells == 2

\* largest denominator of a candidate step size that update_MH_std is
\* followed from
MaxSdDen == 320

\* MemoryErrors explored in one run
MaxAllocFailures == 1

\* _run_MCMC_lugsail, line 515: the diagnostic is computed every 500 steps
LugsailEvery == 500

\* _run_MCMC_time, line 535: the initial capacity of the trace
TimeInitSteps == 500

\* _extend_results_array, line 609: the largest block of slots added
ExtendBlock == 200

\* _run_MCMC_steps, line 496: progress is reported ten times a run
ProgressParts == 10

\* _run_MCMC_time, line 546: progress is reported every 1000 steps
TimeProgressEvery == 1000

\* update_assignments_split_merge, line 666: step_no, the number of
\* restricted Gibbs scans of a split or merge before its last one
ScanNo == 5

\* largest window (accepted plus declined proposals) followed of an engine
\* whose parameter sampler's counters are followed
MaxCount == 20

\* abstract values of a parameter row that has been written
ParamVals == {1, 2}

\* abstract values of the concentration: below, at and above 1 + EPSILON
AlphaVals == {0, 1, 2}

\* max(new_alpha, 1 + EPSILON): the level that stands for 1 + EPSILON
FloorAlpha == 1

VARIABLES
    cells_total,        \* self.cells_total (data.shape[0])
    muts_total,         \* self.muts_total (data.shape[1])
    assignment,         \* self.assignment: cell -> cluster id (-1: unassigned)
    cells_per_cluster,  \* self.cells_per_cluster: dict id -> member count
    parameters,         \* self.parameters: row id -> abstract row value
    written,            \* ids whose row was written since the id's activation
    DP_alpha,           \* self.DP_alpha
    CRP_prior,          \* self.CRP_prior: index -> symbolic log prior
    rg,                 \* locals and self.rg_* scratch of a split or merge move
    todo,               \* cells the running Gibbs sweep has not yet visited
    cell_id,            \* loop variable of the Gibbs sweep (-1 outside it)
    pc,                 \* position of the single thread of control
    err,                \* the exception that ended the run ("" when none)
    run_var,            \* run()'s run_var, decoded: mode and its arguments
    sm_prob,            \* run()'s sm_prob: "zero", "frac" (in (0,1)) or "one"
    dpa_prob,           \* run()'s dpa_prob, likewise
    step,               \* loop variable of the run loop
    results,            \* the trace under construction
    steps_done,         \* do_MCMC_step calls completed in this run
    horizon,            \* the last value of step the model explores
    alloc_failures,     \* MemoryErrors raised so far
    params_MH_counter,  \* self.params_MH_counter: <<accepted, declined>>
    param_proposal_sd,  \* self.param_proposal_sd: three fractions <<num, den>>
    silent              \* run()'s silent

cluster_vars == <<assignment, cells_per_cluster, parameters, written, DP_alpha,
                  CRP_prior>>
config_vars == <<cells_total, muts_total, run_var, sm_prob, dpa_prob, horizon,
                 silent>>
sweep_vars == <<todo, cell_id>>
trace_vars == <<step, results, alloc_failures>>
sampler_vars == <<params_MH_counter, param_proposal_sd>>
vars == <<config_vars, cluster_vars, rg, sweep_vars, pc, err, trace_vars,
          steps_done, sampler_vars>>

(* --------------------------------------------------------------- helpers *)

Cells == 0 .. (cells_total - 1)

Min(s) == CHOOSE x \in s : \A y \in s : x <= y

Max(s) == CHOOSE x \in s : \A y \in s : x >= y

Range(f) == {f[x] : x \in DOMAIN f}

RECURSIVE SeqSum(_)
SeqSum(s) == IF s = <<>> THEN 0 ELSE Head(s) + SeqSum(Tail(s))

RECURSIVE SetToSeq(_)
\* np.argwhere(...).flatten(): the indices in ascending order
SetToSeq(s) == IF s = {} THEN <<>>
               ELSE <<Min(s)>> \o SetToSeq(s \ {Min(s)})

\* np.argwhere(self.assignment == c).flatten(), as a set
CellsOf(c) == {x \in Cells : assignment[x] = c}

\* del d[k]
DictDel(d, k) == [x \in (DOMAIN d) \ {k} |-> d[x]]

\* d[k] = v
DictSet(d, k, v) == [x \in (DOMAIN d) \cup {k} |-> IF x = k THEN v ELSE d[x]]

\* sum of the values of a dict
RECURSIVE DictSum(_)
DictSum(d) == IF DOMAIN d = {} THEN 0
              ELSE LET k == Min(DOMAIN d) IN d[k] + DictSum(DictDel(d, k))

NoRg == [move |-> "none"]

(* ------------------------------------------------ parameter sampler *)

\* the value of params_MH_counter in the specifications that do not follow
\* the sampler's counters: any pair of counts
Unfollowed == <<-1, -1>>

\* line 81: self.param_proposal_sd = np.array([0.1, 0.25, 0.5])
InitialSd == <<(<<1, 10>>), (<<1, 4>>), (<<1, 2>>)>>

\* MH_cluster_params, lines 350-355, called `calls` times: each call adds
\* the declined features to the second counter and the others to the first
MH_cluster_params_counts(counter, calls) ==
    IF counter = Unfollowed THEN {Unfollowed}
    ELSE IF counter[1] + counter[2] + calls * muts_total > MaxCount THEN {}
    ELSE {<<counter[1] + a, counter[2] + calls * muts_total - a>> :
             a \in 0 .. (calls * muts_total)}

RECURSIVE GCD(_, _)
GCD(a, b) == IF b = 0 THEN a ELSE GCD(b, a % b)

\* the fraction n / d in lowest terms
Frac(n, d) == <<n \div GCD(n, d), d \div GCD(n, d)>>

\* np.clip(x, 0, 1) of a fraction
Clip01(x) == IF x[1] >= x[2] THEN <<1, 1>>
             ELSE IF x[1] <= 0 THEN <<0, 1>>
             ELSE x

\* update_MH_std, line 429: the default factor mult = 1.5
DefaultMult == <<3, 2>>

\* line 430: ratio = (counter[0] + 1) / (counter.sum() + 1), compared with
\* 0.45 = 9/20 (line 433) and with 0.55 = 11/20 (line 435)
RatioBelow(counter) ==
    20 * (counter[1] + 1) < 9 * (counter[1] + counter[2] + 1)

RatioAbove(counter) ==
    20 * (counter[1] + 1) > 11 * (counter[1] + counter[2] + 1)

\* line 434: np.clip(self.param_proposal_sd / mult, 0, 1)
Shrunk(sd, mult) ==
    [k \in 1 .. 3 |-> Clip01(Frac(sd[k][1] * mult[2], sd[k][2] * mult[1]))]

\* line 436: np.clip(self.param_proposal_sd * mult, 0, 1)
Grown(sd, mult) ==
    [k \in 1 .. 3 |-> Clip01(Frac(sd[k][1] * mult[1], sd[k][2] * mult[2]))]

\* update_MH_std, lines 429-446, called by the engine's owner between two
\* steps: the window is read and emptied and the step sizes are adapted.
\* The sum of line 438 is computed and dropped; update_MH_std_model_specific
\* does nothing in this class
update_MH_std ==
    /\ pc = "idle"
    /\ run_var.mode = "direct"
    /\ params_MH_counter # Unfollowed
    /\ \A k \in 1 .. 3 : param_proposal_sd[k][2] <= MaxSdDen
    /\ params_MH_counter' = <<0, 0>>
    /\ param_proposal_sd' =
          IF RatioBelow(params_MH_counter)
          THEN Shrunk(param_proposal_sd, DefaultMult)
          ELSE IF RatioAbove(params_MH_counter)
          THEN Grown(param_proposal_sd, DefaultMult)
          ELSE param_proposal_sd
    /\ UNCHANGED <<config_vars, cluster_vars, rg, sweep_vars, pc, err,
                   trace_vars, steps_done>>

\* run_rg_nc, lines 794-803, with lines 916 and 937: the calls of
\* MH_cluster_params in a split or merge proposal, two in a scan of the
\* split state and one in a scan of the merged state, ScanNo scans of each
\* and the last scan of the proposed move
rg_MH_calls(move) == 3 * ScanNo + (IF move = "split" THEN 2 ELSE 1)

\* stdout_MCMC_progress, line 656: self.params_MH_counter = np.zeros(2)
stdout_MCMC_progress(counter) ==
    IF counter = Unfollowed THEN Unfollowed ELSE <<0, 0>>

(* ----------------------------------------------------- cluster state *)

\* _initialize_clusters(mode='together'): every cell in cluster 0, row 0 drawn
initialize_clusters(n, p) ==
    /\ assignment = [x \in 0 .. (n - 1) |-> 0]
    /\ cells_per_cluster = (0 :> n)
    /\ parameters = [c \in 0 .. (n - 1) |-> IF c = 0 THEN p ELSE 0]
    /\ written = {0}

\* log_CRP_prior, lines 129-131: log(n_i) - log(n - 1 + a), kept symbolic
log_CRP_prior(n_i, n, a) == [log_of |-> n_i, minus_log_of |-> <<n - 1, a>>]

\* init_DP_prior, lines 203-206: index 0 holds the appended 0, index s in
\* 1..N the prior of joining a cluster of s members, the last index the
\* prior of a new cluster (the concentration in place of the size)
init_DP_prior(a) ==
    [s \in 0 .. (cells_total + 1) |->
        IF s = 0 THEN [log_of |-> <<"none", 0>>, minus_log_of |-> <<0, 0>>]
        ELSE IF s <= cells_total
             THEN log_CRP_prior(<<"size", s>>, cells_total, a)
             ELSE log_CRP_prior(<<"alpha", a>>, cells_total, a)]

\* get_lpost_single, lines 242-245: the prior term read for each active
\* cluster, self.CRP_prior[cl_size] with the sizes of cells_per_cluster
get_lpost_single_prior ==
    [c \in DOMAIN cells_per_cluster |-> CRP_prior[cells_per_cluster[c]]]

\* get_lpost_single_new_cluster, line 213: self.CRP_prior[-1]
new_cluster_prior == CRP_prior[cells_total + 1]

\* get_empty_cluster: min(self._clusters.difference(self.assignment));
\* min() of an empty set raises ValueError
FreeIds(asg) == Cells \ Range(asg)

\* a variant of get_empty_cluster that takes the largest free id
get_empty_cluster_largest(asg) == Max(FreeIds(asg))

get_empty_cluster(asg) == Min(FreeIds(asg))

\* outcomes of the test np.random.random() < p
Draws(p) == CASE p = "zero" -> {FALSE}
              [] p = "one" -> {TRUE}
              [] OTHER -> {TRUE, FALSE}

\* where do_MCMC_step returns to: the run loop's trace append, or the caller
AfterStep == IF run_var.mode = "direct" THEN "idle" ELSE "record"

Raise(e) ==
    /\ pc' = "error"
    /\ err' = e

(* ------------------------------------------------------- do_MCMC_step *)

\* do_MCMC_step, lines 453-457: one assignment move, split-merge or Gibbs
do_MCMC_step ==
    /\ \/ pc = "do_step"
       \/ pc = "idle" /\ run_var.mode = "direct"
    /\ \E sm \in Draws(sm_prob) :
          IF sm THEN /\ pc' = "split_merge"
                     /\ UNCHANGED sweep_vars
                ELSE /\ pc' = "Gibbs"
                     /\ todo' = Cells
                     /\ UNCHANGED cell_id
    /\ UNCHANGED sampler_vars
    /\ UNCHANGED <<config_vars, cluster_vars, rg, err, trace_vars, steps_done>>

\* a variant of LeaveCluster that keeps the emptied cluster in the table
LeaveCluster_keeping_empty(old_cluster) ==
    DictSet(cells_per_cluster, old_cluster, cells_per_cluster[old_cluster] - 1)

\* lines 282-285: the cell leaves old_cluster, which is deleted from the
\* table when the cell was its only member
LeaveCluster(old_cluster) ==
    IF cells_per_cluster[old_cluster] = 1
    THEN DictDel(cells_per_cluster, old_cluster)
    ELSE DictSet(cells_per_cluster, old_cluster,
                 cells_per_cluster[old_cluster] - 1)

\* lines 283 and 779: the row of an id deleted from the table stays in
\* self.parameters as it is, left over from the cluster that is gone
still_written(table) == written \cap DOMAIN table

\* update_assignments_Gibbs, lines 279-286: take the next cell of the
\* permutation out of its cluster
Gibbs_remove ==
    /\ pc = "Gibbs"
    /\ todo # {}
    /\ \E c \in todo :
          /\ cell_id' = c
          /\ cells_per_cluster' = LeaveCluster(assignment[c])
          /\ assignment' = [assignment EXCEPT ![c] = -1]
    /\ written' = still_written(cells_per_cluster')
    /\ pc' = "Gibbs_assign"
    /\ UNCHANGED sampler_vars
    /\ UNCHANGED <<config_vars, parameters, DP_alpha, CRP_prior, rg, todo, err,
                   trace_vars, steps_done>>

\* a variant of init_new_cluster that returns the id without drawing its row
init_new_cluster_without_row(id, p) ==
    [parameters |-> parameters, written |-> written]

\* init_new_cluster, lines 307-312: the row of the smallest free id is drawn
init_new_cluster(id, p) ==
    [parameters |-> [parameters EXCEPT ![id] = p],
     written |-> written \cup {id}]

\* a variant of JoinCluster that leaves the count as it was
JoinCluster_without_count(c, id, n) ==
    /\ assignment' = [assignment EXCEPT ![c] = id]
    /\ cells_per_cluster' = DictSet(cells_per_cluster, id, n)

\* lines 303-304: cell c is assigned to cluster id, whose count, n before,
\* is incremented
JoinCluster(c, id, n) ==
    /\ assignment' = [assignment EXCEPT ![c] = id]
    /\ cells_per_cluster' = DictSet(cells_per_cluster, id, n + 1)

\* update_assignments_Gibbs, lines 288-304: sample the cell's cluster among
\* the active ones and a new one (-1), and put it there
Gibbs_assign ==
    /\ pc = "Gibbs_assign"
    /\ \E new_cluster_id \in (DOMAIN cells_per_cluster) \cup {-1} :
          IF new_cluster_id = -1
          THEN IF FreeIds(assignment) = {}
               THEN /\ Raise("ValueError")
                    /\ UNCHANGED <<cluster_vars, sweep_vars>>
               ELSE \E p \in ParamVals :
                      LET id == get_empty_cluster(assignment) IN
                      /\ parameters' = init_new_cluster(id, p).parameters
                      /\ written' = init_new_cluster(id, p).written
                      /\ JoinCluster(cell_id, id, 0)
                      /\ todo' = todo \ {cell_id}
                      /\ cell_id' = -1
                      /\ pc' = IF todo' = {} THEN "params" ELSE "Gibbs"
                      /\ UNCHANGED <<DP_alpha, CRP_prior, err>>
          ELSE /\ JoinCluster(cell_id, new_cluster_id,
                              cells_per_cluster[new_cluster_id])
               /\ todo' = todo \ {cell_id}
               /\ cell_id' = -1
               /\ pc' = IF todo' = {} THEN "params" ELSE "Gibbs"
               /\ UNCHANGED <<parameters, written, DP_alpha, CRP_prior, err>>
    /\ UNCHANGED sampler_vars
    /\ UNCHANGED <<config_vars, rg, trace_vars, steps_done>>

(* --------------------------------------------------- split-merge move *)

\* the moves update_assignments_split_merge may call, lines 673-684
SplitMergeMoves(cluster_no) ==
    IF cluster_no = 1 THEN {"split"}
    ELSE IF cluster_no = cells_total THEN {"merge"}
    ELSE {"split", "merge"}

\* update_assignments_split_merge, lines 669-684
update_assignments_split_merge ==
    /\ pc = "split_merge"
    /\ \E move \in SplitMergeMoves(Cardinality(DOMAIN cells_per_cluster)) :
          /\ rg' = [move |-> move]
          /\ pc' = move
    /\ UNCHANGED sampler_vars
    /\ UNCHANGED <<config_vars, cluster_vars, sweep_vars, err, trace_vars,
                   steps_done>>

\* do_split_move, lines 689-696: draw a cluster with probability
\* proportional to its size, again while the one drawn has a single member
split_draw ==
    /\ pc = "split"
    /\ \E clust_i \in DOMAIN cells_per_cluster :
          /\ rg' = [move |-> "split", cl_i |-> clust_i]
          /\ pc' = IF Cardinality(CellsOf(clust_i)) = 1 THEN "split"
                   ELSE "split_rg"
    /\ UNCHANGED sampler_vars
    /\ UNCHANGED <<config_vars, cluster_vars, sweep_vars, err, trace_vars,
                   steps_done>>

\* the labelings a restricted Gibbs scan can leave on S: _rg_scan_assign
\* resamples every element to 0 or 1 (lines 874-886)
Labelings(S) == [1 .. Len(S) -> {0, 1}]

\* a variant of split_run_rg_nc whose scans work on the row of the cluster
\* itself instead of a scratch copy
split_run_rg_nc_in_place ==
    /\ pc = "split_rg"
    /\ \E obs_i \in CellsOf(rg.cl_i) :
       \E obs_j \in CellsOf(rg.cl_i) \ {obs_i} :
       \E ps \in ParamVals \X ParamVals :
       \E pm \in ParamVals :
         LET S == SetToSeq(CellsOf(rg.cl_i) \ {obs_i, obs_j}) IN
         \E lab \in [1 .. Len(S) -> {0, 1}] :
           /\ rg' = [move |-> "split", cl_i |-> rg.cl_i, obs_i |-> obs_i,
                     obs_j |-> obs_j, S |-> S, rg_assignment |-> lab,
                     rg_params_split |-> ps, rg_params_merge |-> pm]
           /\ parameters' = [parameters EXCEPT ![rg.cl_i] = ps[1]]
           /\ written' = written \cup {rg.cl_i}
    /\ pc' = "split_MH"
    /\ \E counter \in MH_cluster_params_counts(params_MH_counter,
                                              rg_MH_calls("split")) :
          params_MH_counter' = counter
    /\ UNCHANGED param_proposal_sd
    /\ UNCHANGED <<config_vars, assignment, cells_per_cluster, DP_alpha,
                   CRP_prior, sweep_vars, err, trace_vars, steps_done>>

\* do_split_move, lines 701-717, with run_rg_nc, lines 784-807, and the
\* recorded scan of _do_rg_split_MH, line 916: the launch state is scanned
\* on scratch copies only
split_run_rg_nc ==
    /\ pc = "split_rg"
    /\ \E obs_i \in CellsOf(rg.cl_i) :
       \E obs_j \in CellsOf(rg.cl_i) \ {obs_i} :
       \E ps \in ParamVals \X ParamVals :
       \E pm \in ParamVals :
         LET S == SetToSeq(CellsOf(rg.cl_i) \ {obs_i, obs_j}) IN
         \E lab \in Labelings(S) :
           rg' = [move |-> "split", cl_i |-> rg.cl_i, obs_i |-> obs_i,
                  obs_j |-> obs_j, S |-> S, rg_assignment |-> lab,
                  rg_params_split |-> ps, rg_params_merge |-> pm]
    /\ pc' = "split_MH"
    /\ \E counter \in MH_cluster_params_counts(params_MH_counter,
                                              rg_MH_calls("split")) :
          params_MH_counter' = counter
    /\ UNCHANGED param_proposal_sd
    /\ UNCHANGED <<config_vars, cluster_vars, sweep_vars, err, trace_vars,
                   steps_done>>

\* a variant of new_cluster_cells that leaves obs_j where it was
new_cluster_cells_without_j(S, new_assignment, obs_j) ==
    {S[k] : k \in {x \in 1 .. Len(S) : new_assignment[x] = 1}}

\* np.append(S[np.where(new_assignment == 1)], obs_j), lines 728-730
new_cluster_cells(S, new_assignment, obs_j) ==
    {S[k] : k \in {x \in 1 .. Len(S) : new_assignment[x] = 1}} \cup {obs_j}

\* do_split_move, lines 723-734: the accepted split is written back
apply_split(new_cluster) ==
    LET moved == new_cluster_cells(rg.S, rg.rg_assignment, rg.obs_j) IN
    /\ parameters' = [parameters EXCEPT ![rg.cl_i] = rg.rg_params_split[1],
                                        ![new_cluster] = rg.rg_params_split[2]]
    /\ written' = written \cup {rg.cl_i, new_cluster}
    /\ assignment' = [x \in DOMAIN assignment |->
                        IF x \in moved THEN new_cluster ELSE assignment[x]]
    /\ cells_per_cluster' =
          LET d == DictSet(cells_per_cluster, new_cluster, Cardinality(moved))
          IN  DictSet(d, rg.cl_i, d[rg.cl_i] - Cardinality(moved))

\* _do_rg_split_MH's test, line 930: the value of accept that run_rg_nc
\* returns to do_split_move
split_MH ==
    /\ pc = "split_MH"
    /\ \E accept \in BOOLEAN :
          rg' = [move |-> "split", cl_i |-> rg.cl_i, obs_i |-> rg.obs_i,
                 obs_j |-> rg.obs_j, S |-> rg.S,
                 rg_assignment |-> rg.rg_assignment,
                 rg_params_split |-> rg.rg_params_split,
                 rg_params_merge |-> rg.rg_params_merge, accept |-> accept]
    /\ pc' = "split_end"
    /\ UNCHANGED sampler_vars
    /\ UNCHANGED <<config_vars, cluster_vars, sweep_vars, err, trace_vars,
                   steps_done>>

\* do_split_move, lines 720-736: if accept ... else
split_end ==
    /\ pc = "split_end"
    /\ IF rg.accept
       THEN IF FreeIds(assignment) = {}
            THEN /\ Raise("ValueError")
                 /\ UNCHANGED <<assignment, cells_per_cluster, parameters,
                                written>>
            ELSE /\ apply_split(get_empty_cluster(assignment))
                 /\ pc' = "params"
                 /\ UNCHANGED err
       ELSE /\ pc' = "params"
            /\ UNCHANGED <<assignment, cells_per_cluster, parameters, written,
                           err>>
    /\ rg' = NoRg
    /\ UNCHANGED sampler_vars
    /\ UNCHANGED <<config_vars, DP_alpha, CRP_prior, sweep_vars, trace_vars,
                   steps_done>>

\* np.append(np.zeros(cl_i_cells.size - 1), np.ones(cl_j_cells.size - 1)),
\* lines 757-760: the labels of S before the merge
merge_assignment(n_i_cells, n_j_cells) ==
    [k \in 1 .. (n_i_cells + n_j_cells - 2) |->
        IF k <= n_i_cells - 1 THEN 0 ELSE 1]

\* do_merge_move, lines 741-769, with run_rg_nc and _do_rg_merge_MH up to
\* its test: _rg_get_split_prob replays the labels of S before the merge
\* into rg_assignment (line 1066)
merge_run_rg_nc ==
    /\ pc = "merge"
    /\ IF Cardinality(DOMAIN cells_per_cluster) < 2
       THEN /\ Raise("ValueError")
            /\ UNCHANGED rg
       ELSE /\ \E cl_i \in DOMAIN cells_per_cluster :
               \E cl_j \in (DOMAIN cells_per_cluster) \ {cl_i} :
               \E i \in CellsOf(cl_i) :
               \E j \in CellsOf(cl_j) :
               \E ps \in ParamVals \X ParamVals :
               \E pm \in ParamVals :
                 rg' = [move |-> "merge", cl_i |-> cl_i, cl_j |-> cl_j,
                        obs_i |-> i, obs_j |-> j,
                        cl_j_cells |-> CellsOf(cl_j),
                        S |-> SetToSeq(CellsOf(cl_i) \ {i})
                                \o SetToSeq(CellsOf(cl_j) \ {j}),
                        rg_assignment |->
                            merge_assignment(Cardinality(CellsOf(cl_i)),
                                             Cardinality(CellsOf(cl_j))),
                        rg_params_split |-> ps, rg_params_merge |-> pm]
            /\ pc' = "merge_MH"
            /\ UNCHANGED err
    /\ \E counter \in MH_cluster_params_counts(params_MH_counter, 
                 IF Cardinality(DOMAIN cells_per_cluster) < 2 THEN 0
                 ELSE rg_MH_calls("merge")) :
          params_MH_counter' = counter
    /\ UNCHANGED param_proposal_sd
    /\ UNCHANGED <<config_vars, cluster_vars, sweep_vars, trace_vars,
                   steps_done>>

\* _get_lprior_ratio_merge, lines 1005-1007: the sizes the ratio is
\* computed from, n_j = assignment.sum() and n_i = S_no - n_j + 2
lprior_ratio_merge_sizes(assign) ==
    [n_j |-> SeqSum(assign), n_i |-> Len(assign) - SeqSum(assign) + 2]

\* _get_lprior_ratio_merge, lines 1009-1010: for n_j = 0 gammaln(n_j) is
\* +inf, the ratio and with it A are -inf, and the test log(u) < A of line
\* 948 cannot succeed
lprior_ratio_merge_finite(assign) == lprior_ratio_merge_sizes(assign).n_j >= 1

\* a variant of apply_merge that keeps cl_j in the table
apply_merge_keeping_cl_j ==
    /\ parameters' = [parameters EXCEPT ![rg.cl_i] = rg.rg_params_merge]
    /\ assignment' = [x \in DOMAIN assignment |->
                        IF x \in rg.cl_j_cells THEN rg.cl_i ELSE assignment[x]]
    /\ cells_per_cluster' =
          DictSet(cells_per_cluster, rg.cl_i,
                  cells_per_cluster[rg.cl_i] + Cardinality(rg.cl_j_cells))
    /\ written' = (written \cup {rg.cl_i}) \cap DOMAIN cells_per_cluster'

\* do_merge_move, lines 774-779: the accepted merge is written back
apply_merge ==
    /\ parameters' = [parameters EXCEPT ![rg.cl_i] = rg.rg_params_merge]
    /\ assignment' = [x \in DOMAIN assignment |->
                        IF x \in rg.cl_j_cells THEN rg.cl_i ELSE assignment[x]]
    /\ cells_per_cluster' =
          DictDel(DictSet(cells_per_cluster, rg.cl_i,
                          cells_per_cluster[rg.cl_i]
                            + Cardinality(rg.cl_j_cells)),
                  rg.cl_j)
    /\ written' = (written \cup {rg.cl_i}) \cap DOMAIN cells_per_cluster'

\* _do_rg_merge_MH's test, line 948: the value of accept that run_rg_nc
\* returns to do_merge_move
merge_MH ==
    /\ pc = "merge_MH"
    /\ \E accept \in (IF lprior_ratio_merge_finite(rg.rg_assignment)
                       THEN BOOLEAN ELSE {FALSE}) :
          rg' = [move |-> "merge", cl_i |-> rg.cl_i, cl_j |-> rg.cl_j,
                 obs_i |-> rg.obs_i, obs_j |-> rg.obs_j,
                 cl_j_cells |-> rg.cl_j_cells, S |-> rg.S,
                 rg_assignment |-> rg.rg_assignment,
                 rg_params_split |-> rg.rg_params_split,
                 rg_params_merge |-> rg.rg_params_merge, accept |-> accept]
    /\ pc' = "merge_end"
    /\ UNCHANGED sampler_vars
    /\ UNCHANGED <<config_vars, cluster_vars, sweep_vars, err, trace_vars,
                   steps_done>>

\* do_merge_move, lines 771-781: if accept ... else
merge_end ==
    /\ pc = "merge_end"
    /\ IF rg.accept
       THEN apply_merge
       ELSE UNCHANGED <<assignment, cells_per_cluster, parameters, written>>
    /\ pc' = "params"
    /\ rg' = NoRg
    /\ UNCHANGED sampler_vars
    /\ UNCHANGED <<config_vars, DP_alpha, CRP_prior, sweep_vars, err,
                   trace_vars, steps_done>>

(* ------------------------------------- the restricted Gibbs scans *)

\* a variant of rg_size_terms that leaves the representative j out
rg_size_terms_without_j(labels) ==
    [n_j |-> SeqSum(labels) + 1, n_i |-> Len(labels) - (SeqSum(labels) + 1) + 1]

\* _rg_scan_assign, lines 880-882, and _rg_get_split_prob, lines 1058-1059:
\* n_j = np.sum(self.rg_assignment) + 2 and n_i = S.size - n_j + 1, taken
\* while the element's own label is -1
rg_size_terms(labels) ==
    [n_j |-> SeqSum(labels) + 2, n_i |-> Len(labels) - (SeqSum(labels) + 2) + 1]

\* do_split_move, lines 701-717, and run_rg_nc, lines 784-802: the clusters'
\* representatives and S are drawn and the earlier scans have left some
\* labelling of S; the scan of _do_rg_split_MH (line 916) begins
rg_scan_begin ==
    /\ pc = "split_rg"
    /\ \E obs_i \in CellsOf(rg.cl_i) :
       \E obs_j \in CellsOf(rg.cl_i) \ {obs_i} :
       \E ps \in ParamVals \X ParamVals :
       \E pm \in ParamVals :
         LET S == SetToSeq(CellsOf(rg.cl_i) \ {obs_i, obs_j}) IN
         \E lab \in Labelings(S) :
           /\ rg' = [move |-> "split", cl_i |-> rg.cl_i, obs_i |-> obs_i,
                     obs_j |-> obs_j, S |-> S, rg_assignment |-> lab,
                     rg_params_split |-> ps, rg_params_merge |-> pm,
                     order |-> 1 .. Len(S), obs |-> 0, n_i |-> 0, n_j |-> 0]
           /\ pc' = IF Len(S) = 0 THEN "split_MH" ELSE "rg_scan"
    /\ \E counter \in MH_cluster_params_counts(params_MH_counter,
                                              rg_MH_calls("split")) :
          params_MH_counter' = counter
    /\ UNCHANGED param_proposal_sd
    /\ UNCHANGED <<config_vars, cluster_vars, sweep_vars, err, trace_vars,
                   steps_done>>

\* do_merge_move, lines 741-766, and run_rg_nc: the two clusters, their
\* representatives, S and the labels of S before the merge; the replay of
\* _rg_get_split_prob (line 939) begins on the labelling the scans left
rg_replay_begin ==
    /\ pc = "merge"
    /\ Cardinality(DOMAIN cells_per_cluster) >= 2
    /\ \E cl_i \in DOMAIN cells_per_cluster :
       \E cl_j \in (DOMAIN cells_per_cluster) \ {cl_i} :
       \E i \in CellsOf(cl_i) :
       \E j \in CellsOf(cl_j) :
       \E ps \in ParamVals \X ParamVals :
       \E pm \in ParamVals :
         LET S == SetToSeq(CellsOf(cl_i) \ {i}) \o SetToSeq(CellsOf(cl_j) \ {j})
         IN
         \E lab \in Labelings(S) :
           /\ rg' = [move |-> "merge", cl_i |-> cl_i, cl_j |-> cl_j,
                     obs_i |-> i, obs_j |-> j, cl_j_cells |-> CellsOf(cl_j),
                     S |-> S, rg_assignment |-> lab,
                     assign |-> merge_assignment(Cardinality(CellsOf(cl_i)),
                                                 Cardinality(CellsOf(cl_j))),
                     rg_params_split |-> ps, rg_params_merge |-> pm,
                     order |-> 1 .. Len(S), obs |-> 0, n_i |-> 0, n_j |-> 0]
           /\ pc' = IF Len(S) = 0 THEN "merge_MH" ELSE "rg_scan"
    /\ \E counter \in MH_cluster_params_counts(params_MH_counter,
                                              rg_MH_calls("merge")) :
          params_MH_counter' = counter
    /\ UNCHANGED param_proposal_sd
    /\ UNCHANGED <<config_vars, cluster_vars, sweep_vars, err, trace_vars,
                   steps_done>>

\* lines 878-882 and 1056-1059: the next element, of a random permutation
\* in the scan and in index order in the replay, is taken out of its
\* cluster and the two size terms are computed
rg_scan_remove ==
    /\ pc = "rg_scan"
    /\ \E obs \in (IF rg.move = "split" THEN rg.order ELSE {Min(rg.order)}) :
          LET labels == [rg.rg_assignment EXCEPT ![obs] = -1]
              sizes == rg_size_terms(labels)
          IN  rg' = [rg EXCEPT !.rg_assignment = labels, !.obs = obs,
                               !.n_i = sizes.n_i, !.n_j = sizes.n_j,
                               !.order = @ \ {obs}]
    /\ pc' = "rg_scan_place"
    /\ UNCHANGED sampler_vars
    /\ UNCHANGED <<config_vars, cluster_vars, sweep_vars, err, trace_vars,
                   steps_done>>

\* lines 887-888 and 1066: the element is given its new label, sampled in
\* the scan, the label it had before the merge in the replay
rg_scan_place ==
    /\ pc = "rg_scan_place"
    /\ \E new_cluster \in (IF rg.move = "split" THEN {0, 1}
                            ELSE {rg.assign[rg.obs]}) :
          rg' = [rg EXCEPT !.rg_assignment[rg.obs] = new_cluster]
    /\ pc' = IF rg.order # {} THEN "rg_scan"
             ELSE IF rg.move = "split" THEN "split_MH" ELSE "merge_MH"
    /\ UNCHANGED sampler_vars
    /\ UNCHANGED <<config_vars, cluster_vars, sweep_vars, err, trace_vars,
                   steps_done>>

\* update_parameters, lines 319-325: every populated cluster's row is
\* replaced by MH_cluster_params' result (the old row when every feature's
\* proposal is declined)
update_parameters ==
    /\ pc = "params"
    /\ \E p \in [DOMAIN cells_per_cluster -> ParamVals] :
          parameters' = [c \in DOMAIN parameters |->
                           IF c \in DOMAIN p THEN p[c] ELSE parameters[c]]
    /\ written' = written \cup DOMAIN cells_per_cluster
    /\ pc' = "conc"
    /\ \E counter \in MH_cluster_params_counts(params_MH_counter, 
                 Cardinality(DOMAIN cells_per_cluster)) :
          params_MH_counter' = counter
    /\ UNCHANGED param_proposal_sd
    /\ UNCHANGED <<config_vars, assignment, cells_per_cluster, DP_alpha,
                   CRP_prior, rg, sweep_vars, err, trace_vars, steps_done>>

\* a variant of FloorAt that keeps the drawn value as it is
FloorAt_unfloored(new_alpha) == new_alpha

\* max(new_alpha, 1 + EPSILON), line 425
FloorAt(new_alpha) == IF new_alpha > FloorAlpha THEN new_alpha ELSE FloorAlpha

\* do_MCMC_step, lines 461-462, with update_DP_alpha, lines 400-426
update_DP_alpha ==
    /\ pc = "conc"
    /\ \E upd \in Draws(dpa_prob) :
          IF upd
          THEN \E new_alpha \in AlphaVals :
                 /\ DP_alpha' = FloorAt(new_alpha)
                 /\ CRP_prior' = init_DP_prior(DP_alpha')
          ELSE UNCHANGED <<DP_alpha, CRP_prior>>
    /\ pc' = AfterStep
    /\ steps_done' = IF run_var.mode = "direct" THEN steps_done
                     ELSE steps_done + 1
    /\ UNCHANGED sampler_vars
    /\ UNCHANGED <<config_vars, assignment, cells_per_cluster, parameters,
                   written, rg,
                   sweep_vars, err, trace_vars>>

(* ---------------------------------------------------------- the trace *)

Zeros(n) == [k \in 1 .. n |-> 0]

\* one step's slice of results['params']: w cluster slots
ZeroRow(w) == [c \in 1 .. w |-> 0]

NoResults ==
    [ML |-> <<>>, MAP |-> <<>>, DP_alpha |-> <<>>, assignments |-> <<>>,
     params |-> <<>>, width |-> 1, burn_in |-> -1]

\* init_MCMC_results, lines 560-566: np.zeros arrays of `steps` slots, the
\* parameter array with one cluster slot
init_MCMC_results(steps) ==
    [ML |-> Zeros(steps), MAP |-> Zeros(steps), DP_alpha |-> Zeros(steps),
     assignments |-> Zeros(steps),
     params |-> [k \in 1 .. steps |-> ZeroRow(1)],
     width |-> 1, burn_in |-> -1]

\* get_ll_full, lines 248-253: a sum over the features of every cell, which
\* is exactly 0 for data without features and strictly negative otherwise
\* (with the default error rates no factor is 1); tag names the state
get_ll_full(tag) == IF muts_total = 0 THEN 0 ELSE tag

\* min(200, results['ML'].size), line 609
add_size(res) == IF Len(res.ML) < ExtendBlock THEN Len(res.ML) ELSE ExtendBlock

\* _extend_results_array, lines 608-625, of which the first `done` of the
\* five np.append calls returned (all five when no MemoryError is raised)
extend_results_array(res, done) ==
    LET n == add_size(res) IN
    [res EXCEPT
       !.ML = IF done >= 1 THEN @ \o Zeros(n) ELSE @,
       !.MAP = IF done >= 2 THEN @ \o Zeros(n) ELSE @,
       !.DP_alpha = IF done >= 3 THEN @ \o Zeros(n) ELSE @,
       !.assignments = IF done >= 4 THEN @ \o Zeros(n) ELSE @,
       !.params = IF done >= 5 THEN @ \o [k \in 1 .. n |-> ZeroRow(res.width)]
                  ELSE @]

\* a[i] = v of a zero-based array; IndexError past its end
StoreAt(w, a, i, v) ==
    IF w.exc # "" THEN w
    ELSE IF i < Len(w.res[a]) THEN [w EXCEPT !.res[a][i + 1] = v]
    ELSE [w EXCEPT !.exc = "IndexError"]

\* results['params'][step][clusters] = self.parameters[clusters]
StoreRow(res, i, clusters, v) ==
    [res EXCEPT !.params[i + 1] =
        [c \in 1 .. res.width |-> IF (c - 1) \in clusters THEN v ELSE @[c]]]

\* np.pad(results['params'], [(0,0), (0, cl_diff), (0,0)]), line 599
pad_params(res, cl_diff) ==
    [res EXCEPT !.width = @ + cl_diff,
                !.params = [k \in 1 .. Len(@) |-> @[k] \o Zeros(cl_diff)]]

\* update_MCMC_results, lines 594-602: the rows of the active clusters are
\* copied; an IndexError (step past the end, or a cluster id past the
\* cluster axis) pads the cluster axis and the copy is tried once more
StoreParams(w, i, clusters, v) ==
    IF w.exc # "" THEN w
    ELSE IF i < Len(w.res.params) /\ Max(clusters) < w.res.width
    THEN [w EXCEPT !.res = StoreRow(@, i, clusters, v)]
    ELSE LET cl_diff == Max(clusters) - w.res.width + 1 IN
         IF cl_diff < 0 THEN [w EXCEPT !.exc = "ValueError"]
         ELSE IF i < Len(w.res.params)
         THEN [w EXCEPT !.res = StoreRow(pad_params(@, cl_diff), i, clusters, v)]
         ELSE [w EXCEPT !.res = pad_params(@, cl_diff), !.exc = "IndexError"]

\* update_MCMC_results, lines 577-605, called with step st; fail = 0 when
\* no MemoryError is raised, else the np.append call of
\* _extend_results_array that raises it.  The result is the trace and the
\* exception that escapes ("" when none)
update_MCMC_results(res, st, fail) ==
    LET tag == steps_done + 1
        over == st >= Len(res.ML)
        r1 == IF over
              THEN extend_results_array(res, IF fail = 0 THEN 5 ELSE fail - 1)
              ELSE res
        idx == IF over /\ fail # 0 THEN st % Len(r1.ML) ELSE st
        w0 == [res |-> r1, exc |-> ""]
        w1 == StoreAt(w0, "ML", idx, get_ll_full(tag))
        w2 == StoreAt(w1, "MAP", idx, tag)
        w3 == StoreAt(w2, "assignments", idx, tag)
        w4 == StoreAt(w3, "DP_alpha", idx, tag)
    IN  StoreParams(w4, idx, DOMAIN cells_per_cluster, tag)

\* the np.append calls of an extension that may raise MemoryError: none
\* when no extension is made or its block is empty
MemFailures(res, st) ==
    IF st >= Len(res.ML) /\ add_size(res) > 0
          /\ alloc_failures < MaxAllocFailures
    THEN 0 .. 5 ELSE {0}

\* values[:-zeros]
DropLast(a, zeros) == SubSeq(a, 1, Len(a) - zeros)

\* _truncate_results_array, lines 628-633
truncate_results_array(res) ==
    LET zeros == Cardinality({k \in 1 .. Len(res.ML) : res.ML[k] = 0}) IN
    IF zeros # 0
    THEN [res EXCEPT !.ML = DropLast(@, zeros), !.MAP = DropLast(@, zeros),
                     !.DP_alpha = DropLast(@, zeros),
                     !.assignments = DropLast(@, zeros),
                     !.params = DropLast(@, zeros)]
    ELSE res

(* ------------------------------------------------------ the run loops *)

\* lines 496-497, 519-520, 546-548: when a report is due and the run is not
\* silent, stdout_MCMC_progress is called
progress(due) ==
    /\ params_MH_counter' = IF due /\ ~silent
                            THEN stdout_MCMC_progress(params_MH_counter)
                            ELSE params_MH_counter
    /\ UNCHANGED param_proposal_sd

Abs(x) == IF x < 0 THEN -x ELSE x

\* int(a / b), b # 0: the quotient truncated towards zero
TruncDiv(a, b) ==
    IF (a >= 0) = (b > 0) THEN Abs(a) \div Abs(b) ELSE -(Abs(a) \div Abs(b))

\* int(steps * burn_in), the fraction burn_in given as <<num, den>>
BurnInIndex(steps, burn_in) == TruncDiv(steps * burn_in[1], burn_in[2])

\* c**2 - 1 for the cutoff c = num / den, over den**2
CutoffDenominator(c) == c[1] * c[1] - c[2] * c[2]

\* int(1 / (cutoff**2 - 1)), line 507
min_steps(c) == TruncDiv(c[2] * c[2], CutoffDenominator(c))

\* init_MCMC_results, lines 559-570: the arrays and the initial state's
\* sample stored at index 0; np.zeros of a negative size raises ValueError
InitResults(steps) ==
    IF steps < 0 THEN [res |-> NoResults, exc |-> "ValueError"]
    ELSE update_MCMC_results(init_MCMC_results(steps), 0, 0)

\* run, lines 465-481, and the run mode's code before its loop
run ==
    /\ pc = "idle"
    /\ run_var.mode # "direct"
    /\ LET w == CASE run_var.mode = "steps" -> InitResults(run_var.steps + 1)
                  [] run_var.mode = "lugsail" ->
                       IF CutoffDenominator(run_var.cutoff) = 0
                       THEN [res |-> NoResults, exc |-> "ZeroDivisionError"]
                       ELSE InitResults(min_steps(run_var.cutoff))
                  [] OTHER -> InitResults(TimeInitSteps)
       IN  /\ results' = w.res
           /\ IF w.exc = "" THEN pc' = "loop" /\ UNCHANGED err
              ELSE Raise(w.exc)
    /\ step' = 0
    /\ UNCHANGED sampler_vars
    /\ UNCHANGED <<config_vars, cluster_vars, rg, sweep_vars, steps_done,
                   alloc_failures>>

\* _run_MCMC_steps, lines 491-503: the head of the for loop, and the code
\* after it
run_MCMC_steps ==
    /\ pc = "loop"
    /\ run_var.mode = "steps"
    /\ LET steps == run_var.steps + 1 IN
       IF step + 1 >= steps
       THEN /\ results' = [results EXCEPT
                              !.burn_in = BurnInIndex(steps, run_var.burn_in)]
            /\ pc' = "done"
            /\ UNCHANGED <<step, err, sampler_vars>>
       ELSE /\ step' = step + 1
            /\ UNCHANGED results
            /\ IF steps \div ProgressParts = 0
               THEN /\ Raise("ZeroDivisionError")
                    /\ UNCHANGED sampler_vars
               ELSE /\ pc' = "do_step"
                    /\ progress(step' % (steps \div ProgressParts) = 0)
                    /\ UNCHANGED err
    /\ UNCHANGED <<config_vars, cluster_vars, rg, sweep_vars, steps_done,
                   alloc_failures>>

\* _run_MCMC_lugsail, lines 512-531: the head of the while loop, and the
\* code after it.  The diagnostic of the collaborator
\* ut.get_lugsail_batch_means_est is any number
run_MCMC_lugsail ==
    /\ pc = "loop"
    /\ run_var.mode = "lugsail"
    /\ step < horizon
    /\ step' = step + 1
    /\ \E PSRF_below \in BOOLEAN :
          IF /\ step' % LugsailEvery = 0
             /\ PSRF_below
             /\ step' > min_steps(run_var.cutoff)
          THEN /\ results' = [truncate_results_array(results) EXCEPT
                                 !.burn_in = step' \div 2]
               /\ pc' = "done"
          ELSE /\ UNCHANGED results
               /\ pc' = "do_step"
    /\ progress(step' % LugsailEvery = 0)
    /\ UNCHANGED <<config_vars, cluster_vars, rg, sweep_vars, err, steps_done,
                   alloc_failures>>

\* _run_MCMC_time, lines 539-556: the head of the while loop, and the code
\* after it.  Whether datetime.now() is past end_time is the clock's choice
run_MCMC_time ==
    /\ pc = "loop"
    /\ run_var.mode = "time"
    /\ step' = step + 1
    /\ \E late \in (IF step < horizon THEN BOOLEAN ELSE {TRUE}) :
          IF late
          THEN /\ results' = [truncate_results_array(results) EXCEPT
                                 !.burn_in = BurnInIndex(step', run_var.burn_in)]
               /\ pc' = "done"
               /\ UNCHANGED sampler_vars
          ELSE /\ UNCHANGED results
               /\ pc' = "do_step"
               /\ progress(step' % TimeProgressEvery = 0)
    /\ UNCHANGED <<config_vars, cluster_vars, rg, sweep_vars, err, steps_done,
                   alloc_failures>>

\* the run loops' call update_MCMC_results(results, step), lines 500, 526, 551
record ==
    /\ pc = "record"
    /\ \E fail \in MemFailures(results, step) :
          LET w == update_MCMC_results(results, step, fail) IN
          /\ results' = w.res
          /\ alloc_failures' = IF fail = 0 THEN alloc_failures
                               ELSE alloc_failures + 1
          /\ IF w.exc = "" THEN pc' = "loop" /\ UNCHANGED err
             ELSE Raise(w.exc)
    /\ UNCHANGED sampler_vars
    /\ UNCHANGED <<config_vars, cluster_vars, rg, sweep_vars, step, steps_done>>

(* ------------------------------------------------------ specifications *)

\* CRP.__init__, lines 31-85: the engine as constructed, for data of n rows
Constructed(n) ==
    /\ cells_total = n
    /\ \E p \in ParamVals : initialize_clusters(n, p)
    /\ DP_alpha \in AlphaVals
    /\ CRP_prior = init_DP_prior(DP_alpha)
    /\ param_proposal_sd = InitialSd
    /\ rg = NoRg
    /\ todo = {}
    /\ cell_id = -1
    /\ pc = "idle"
    /\ err = ""

\* an engine whose do_MCMC_step is called by its owner, with the defaults
\* sm_prob = 0.33 and conc_prob = 0.1 of line 453
Init ==
    /\ \E n \in 1 .. MaxCells : Constructed(n)
    /\ muts_total = MaxMuts
    /\ run_var = [mode |-> "direct"]
    /\ sm_prob = "frac"
    /\ dpa_prob = "frac"
    /\ horizon = 0
    /\ step = 0
    /\ results = NoResults
    /\ steps_done = 0
    /\ alloc_failures = 0
    /\ params_MH_counter = Unfollowed
    /\ silent = FALSE

StepActions ==
    \/ do_MCMC_step
    \/ Gibbs_remove
    \/ Gibbs_assign
    \/ update_assignments_split_merge
    \/ split_draw
    \/ split_run_rg_nc
    \/ split_MH
    \/ split_end
    \/ merge_run_rg_nc
    \/ merge_MH
    \/ merge_end
    \/ update_parameters
    \/ update_DP_alpha

Next == StepActions

Spec == Init /\ [][Next]_vars

\* burn-in fractions of the modelled runs, as <<numerator, denominator>>
BurnIns == {<<1, 2>>}

\* cutoffs of the modelled short convergence-based runs, as <<num, den>>:
\* 1.2 (min_steps 2), 1.4 (min_steps 1), 1.5 (min_steps 0), 1.0 and 0.5
ShortCutoffs == {<<6, 5>>, <<7, 5>>, <<3, 2>>, <<1, 1>>, <<1, 2>>}

\* cutoffs of the convergence-based runs followed to their end:
\* 1.001 (min_steps 499) and 1.0009 (min_steps 555)
LongCutoffs == {<<1001, 1000>>, <<10009, 10000>>}

RunStart ==
    /\ sm_prob = "frac"
    /\ step = 0
    /\ results = NoResults
    /\ steps_done = 0
    /\ alloc_failures = 0
    /\ params_MH_counter = Unfollowed
    /\ silent = FALSE

\* an engine on which run() is called once in any of its three modes, with
\* the default sm_prob = 0.1 and with dpa_prob the default 0.1 or 1 (line
\* 465); the convergence-based and the wall-clock runs are followed for
\* MaxRunSteps steps
InitRun ==
    /\ \E n \in 1 .. RunCells : Constructed(n)
    /\ muts_total \in 0 .. MaxMuts
    /\ run_var \in [mode : {"steps"}, steps : 0 .. MaxRunSteps, burn_in : BurnIns]
                    \cup [mode : {"lugsail"}, cutoff : ShortCutoffs]
                    \cup [mode : {"time"}, burn_in : BurnIns]
    /\ dpa_prob \in {"frac", "one"}
    /\ horizon = MaxRunSteps
    /\ RunStart

NextRun ==
    \/ run
    \/ run_MCMC_steps
    \/ run_MCMC_lugsail
    \/ run_MCMC_time
    \/ record
    \/ StepActions

SpecRun == InitRun /\ [][NextRun]_vars

\* the actions of do_MCMC_step an engine of a single observation can take
SingletonStepActions ==
    \/ do_MCMC_step
    \/ Gibbs_remove
    \/ Gibbs_assign
    \/ update_assignments_split_merge
    \/ split_draw
    \/ update_parameters
    \/ update_DP_alpha

\* a fixed-step run of up to MaxFixedSteps steps on one observation
InitSteps ==
    /\ Constructed(1)
    /\ muts_total \in 0 .. MaxMuts
    /\ run_var \in [mode : {"steps"}, steps : 0 .. MaxFixedSteps,
                     burn_in : BurnIns]
    /\ dpa_prob = "frac"
    /\ horizon = MaxFixedSteps
    /\ RunStart

NextSteps ==
    \/ run
    \/ run_MCMC_steps
    \/ record
    \/ SingletonStepActions

SpecSteps == InitSteps /\ [][NextSteps]_vars

\* a convergence-based run on one observation, followed for LongSteps steps
InitLugsail ==
    /\ Constructed(1)
    /\ muts_total \in 0 .. MaxMuts
    /\ run_var \in [mode : {"lugsail"}, cutoff : LongCutoffs]
    /\ dpa_prob = "frac"
    /\ horizon = LongSteps
    /\ RunStart

NextLugsail ==
    \/ run
    \/ run_MCMC_lugsail
    \/ record
    \/ SingletonStepActions

SpecLugsail == InitLugsail /\ [][NextLugsail]_vars

\* do_split_move, lines 694-696: the draw that ends the loop, a cluster of
\* more than one member
split_draw_exit == split_draw /\ pc' = "split_rg"

\* an engine whose owner calls do_MCMC_step again and again: the single
\* thread always takes its next step, and a draw that is possible again
\* and again is eventually made
InitLive ==
    /\ \E n \in 1 .. LiveCells : Constructed(n)
    /\ muts_total = MaxMuts
    /\ run_var = [mode |-> "direct"]
    /\ sm_prob = "frac"
    /\ dpa_prob = "frac"
    /\ horizon = 0
    /\ step = 0
    /\ results = NoResults
    /\ steps_done = 0
    /\ alloc_failures = 0
    /\ params_MH_counter = Unfollowed
    /\ silent = FALSE

SpecLive ==
    /\ InitLive
    /\ [][Next]_vars
    /\ WF_vars(Next)
    /\ SF_vars(split_draw_exit)

\* the rows of self.parameters the step at pc reads: get_lpost_single
\* (line 245), update_parameters (lines 321-325) and the trace append
\* (get_ll_full, lines 250-252, and line 596) index the ids of
\* cells_per_cluster, do_split_move the row of clust_i (line 713),
\* do_merge_move the rows of cl_i and cl_j (line 754)
rows_read ==
    CASE pc \in {"Gibbs_assign", "params", "record"} -> DOMAIN cells_per_cluster
      [] pc = "split_rg" -> {rg.cl_i}
      [] pc = "merge_MH" -> {rg.cl_i, rg.cl_j}
      [] OTHER -> {}

\* an engine whose owner calls do_MCMC_step(sm_prob=1, conc_prob=0): every
\* step is a split or a merge, whose last scan is followed element by
\* element
InitScan ==
    /\ \E n \in 1 .. ScanCells : Constructed(n)
    /\ muts_total = MaxMuts
    /\ run_var = [mode |-> "direct"]
    /\ sm_prob = "one"
    /\ dpa_prob = "zero"
    /\ horizon = 0
    /\ step = 0
    /\ results = NoResults
    /\ steps_done = 0
    /\ alloc_failures = 0
    /\ params_MH_counter = Unfollowed
    /\ silent = FALSE

NextScan ==
    \/ do_MCMC_step
    \/ update_assignments_split_merge
    \/ split_draw
    \/ rg_scan_begin
    \/ rg_replay_begin
    \/ rg_scan_remove
    \/ rg_scan_place
    \/ split_MH
    \/ split_end
    \/ merge_MH
    \/ merge_end
    \/ update_parameters
    \/ update_DP_alpha

SpecScan == InitScan /\ [][NextScan]_vars

\* an engine whose owner calls do_MCMC_step, with the counters of the
\* parameter sampler followed from their initial zeros (line 83) while the
\* window is at most MaxCount
InitCount ==
    /\ \E n \in 1 .. CountCells : Constructed(n)
    /\ muts_total = MaxMuts
    /\ run_var = [mode |-> "direct"]
    /\ sm_prob = "frac"
    /\ dpa_prob = "frac"
    /\ horizon = 0
    /\ step = 0
    /\ results = NoResults
    /\ steps_done = 0
    /\ alloc_failures = 0
    /\ params_MH_counter = <<0, 0>>
    /\ silent = FALSE

SpecCount == InitCount /\ [][Next]_vars

\* an engine of one observation whose owner calls
\* do_MCMC_step(sm_prob=0, conc_prob=0) and update_MH_std() in any order
InitStd ==
    /\ Constructed(1)
    /\ muts_total = MaxMuts
    /\ run_var = [mode |-> "direct"]
    /\ sm_prob = "zero"
    /\ dpa_prob = "zero"
    /\ horizon = 0
    /\ step = 0
    /\ results = NoResults
    /\ steps_done = 0
    /\ alloc_failures = 0
    /\ params_MH_counter = <<0, 0>>
    /\ silent = FALSE

NextStd ==
    \/ do_MCMC_step
    \/ Gibbs_remove
    \/ Gibbs_assign
    \/ update_parameters
    \/ update_DP_alpha
    \/ update_MH_std

SpecStd == InitStd /\ [][NextStd]_vars

\* a fixed-step run of up to MaxFixedSteps steps on one observation, silent
\* or not, with the counters of the parameter sampler followed
InitAdapt ==
    /\ Constructed(1)
    /\ muts_total = MaxMuts
    /\ run_var \in [mode : {"steps"}, steps : 0 .. MaxFixedSteps,
                     burn_in : BurnIns]
    /\ dpa_prob = "frac"
    /\ horizon = MaxFixedSteps
    /\ sm_prob = "frac"
    /\ step = 0
    /\ results = NoResults
    /\ steps_done = 0
    /\ alloc_failures = 0
    /\ params_MH_counter = <<0, 0>>
    /\ silent \in BOOLEAN

SpecAdapt == InitAdapt /\ [][NextSteps]_vars

(* --------------------------------------------------------- properties *)

\* between two MCMC steps: before the first, and after each completed one
StepBoundary == pc \in {"idle", "record", "loop", "done"}

\* C1: after construction and after every completed MCMC step (a Gibbs
\* sweep or a split-merge move, accepted or rejected, then the parameter
\* pass and the optional concentration update) the member counts of
\* cells_per_cluster sum to N, the number of observations
C1_counts_sum_to_N ==
    StepBoundary => DictSum(cells_per_cluster) = cells_total

\* a step boundary of the largest engine with several clusters, which only
\* completed steps produce
C1_boundary_after_steps ==
    /\ pc = "idle"
    /\ cells_total = MaxCells
    /\ Cardinality(DOMAIN cells_per_cluster) >= 2

\* C2: at every step boundary no observation is left at the placeholder -1,
\* the keys of cells_per_cluster are exactly the ids occurring in the
\* assignment, each stored count is the number of observations assigned to
\* that id, and no count is 0
C2_assignment_agrees_with_table ==
    StepBoundary =>
        /\ \A x \in Cells : assignment[x] # -1
        /\ DOMAIN cells_per_cluster = Range(assignment)
        /\ \A c \in DOMAIN cells_per_cluster :
              /\ cells_per_cluster[c] = Cardinality(CellsOf(c))
              /\ cells_per_cluster[c] # 0

\* a step boundary at which clusters of different sizes coexist
C2_boundary_with_unequal_clusters ==
    /\ pc = "idle"
    /\ \E c, d \in DOMAIN cells_per_cluster :
          cells_per_cluster[c] >= 2 /\ cells_per_cluster[d] = 1

\* C3: every active cluster id lies in [0, N) (ids are the keys of one
\* table, so no two clusters share one); a cluster created by the 'new'
\* choice of a Gibbs sweep or by an accepted split gets the smallest
\* integer of [0, N) that does not occur in the assignment at that moment;
\* and a free id exists whenever get_empty_cluster is called
C3_ids_in_range_and_smallest_free ==
    [][/\ DOMAIN cells_per_cluster \subseteq Cells
       /\ DOMAIN cells_per_cluster' \subseteq Cells
       /\ \A id \in (DOMAIN cells_per_cluster') \ (DOMAIN cells_per_cluster) :
             /\ id \notin Range(assignment)
             /\ \A smaller \in 0 .. (id - 1) : smaller \in Range(assignment)
       /\ (pc = "Gibbs_assign" \/ (pc = "split_end" /\ rg.accept))
             => FreeIds(assignment) # {}
       /\ err' # "ValueError"]_vars

\* an accepted split about to take a free id that lies below an active one
C3_split_reuses_vacated_id ==
    /\ pc = "split_end"
    /\ rg.accept
    /\ \E c \in DOMAIN cells_per_cluster : c > get_empty_cluster(assignment)

\* C6: a rejected split and a rejected merge leave the assignment, the
\* membership table, the parameter rows of the active clusters and the
\* concentration as they were: no step of the move up to the decision
\* writes them, whatever the scans did on the scratch state, and neither
\* does the step that follows a rejection
C6_rejected_move_changes_nothing ==
    [][(\/ pc \in {"split_merge", "split", "split_rg", "split_MH", "merge",
                    "merge_MH"}
        \/ (pc \in {"split_end", "merge_end"} /\ ~rg.accept))
       => /\ assignment' = assignment
          /\ cells_per_cluster' = cells_per_cluster
          /\ \A c \in DOMAIN cells_per_cluster : parameters'[c] = parameters[c]
          /\ DP_alpha' = DP_alpha]_vars

\* a split whose scans moved members of S to the second sub-cluster and
\* whose proposal was rejected
C6_rejected_split_after_scans ==
    /\ pc = "split_end"
    /\ ~rg.accept
    /\ \E k \in 1 .. Len(rg.S) : rg.rg_assignment[k] = 1

\* C7: an accepted merge of cl_i and cl_j leaves one active cluster less:
\* the members of cl_j are assigned to cl_i, the count of cl_i is the sum
\* of the two counts, cl_j is gone from the table and from the assignment,
\* the assignment and the count of every other cluster are unchanged; on a
\* state of two clusters one cluster with count N is left
C7_accepted_merge ==
    [][(pc = "merge_end" /\ rg.accept) =>
          LET i == rg.cl_i
              j == rg.cl_j
          IN  /\ Cardinality(DOMAIN cells_per_cluster')
                   = Cardinality(DOMAIN cells_per_cluster) - 1
              /\ \A x \in Cells :
                    assignment[x] \in {i, j} => assignment'[x] = i
              /\ cells_per_cluster'[i]
                   = cells_per_cluster[i] + cells_per_cluster[j]
              /\ j \notin DOMAIN cells_per_cluster'
              /\ j \notin Range(assignment')
              /\ \A x \in Cells :
                    assignment[x] \notin {i, j} => assignment'[x] = assignment[x]
              /\ \A c \in (DOMAIN cells_per_cluster) \ {i, j} :
                    /\ c \in DOMAIN cells_per_cluster'
                    /\ cells_per_cluster'[c] = cells_per_cluster[c]
              /\ Cardinality(DOMAIN cells_per_cluster) = 2
                    => cells_per_cluster' = (i :> cells_total)]_vars

\* an accepted merge in the presence of a third cluster
C7_accepted_merge_beside_third_cluster ==
    /\ pc = "merge_end"
    /\ rg.accept
    /\ Cardinality(DOMAIN cells_per_cluster) >= 3

\* C8: an accepted split of cluster c leaves one active cluster more:
\* representative i stays in c, representative j and exactly the members of
\* S with scratch label 1 move to the newly allocated id, both clusters are
\* non-empty, their counts sum to the former count of c, and the assignment
\* and the count of every other cluster are unchanged
C8_accepted_split ==
    [][(pc = "split_end" /\ rg.accept) =>
          LET c == rg.cl_i
              labelled == {rg.S[k] : k \in {x \in 1 .. Len(rg.S) :
                                              rg.rg_assignment[x] = 1}}
          IN  /\ Cardinality(DOMAIN cells_per_cluster')
                   = Cardinality(DOMAIN cells_per_cluster) + 1
              /\ \E new \in (DOMAIN cells_per_cluster') \ (DOMAIN cells_per_cluster) :
                    /\ new \notin Range(assignment)
                    /\ assignment'[rg.obs_i] = c
                    /\ assignment'[rg.obs_j] = new
                    /\ \A x \in Cells \ {rg.obs_j} :
                          assignment'[x] = new <=> x \in labelled
                    /\ \A x \in Cells :
                          assignment'[x] # new => assignment'[x] = assignment[x]
                    /\ cells_per_cluster'[c] >= 1
                    /\ cells_per_cluster'[new] >= 1
                    /\ cells_per_cluster'[c] + cells_per_cluster'[new]
                         = cells_per_cluster[c]
                    /\ \A d \in (DOMAIN cells_per_cluster) \ {c} :
                          cells_per_cluster'[d] = cells_per_cluster[d]]_vars

\* an accepted split, beside another cluster, that moves a member of S
\* together with representative j
C8_accepted_split_beside_other_cluster ==
    /\ pc = "split_end"
    /\ rg.accept
    /\ Cardinality(DOMAIN cells_per_cluster) >= 2
    /\ \E k \in 1 .. Len(rg.S) : rg.rg_assignment[k] = 1

\* C4: for every requested step count n >= 0 and burn-in fraction f a
\* fixed-step run completes without error after exactly n MCMC steps, and
\* returns a trace of length n + 1, index 0 holding the initial state, with
\* burn-in index floor((n + 1) * f)
C4_fixed_step_run ==
    run_var.mode = "steps" =>
        /\ pc # "error"
        /\ pc = "done" =>
              /\ steps_done = run_var.steps
              /\ Len(results.ML) = run_var.steps + 1
              /\ results.MAP[1] = 1
              /\ results.burn_in
                   = ((run_var.steps + 1) * run_var.burn_in[1])
                        \div run_var.burn_in[2]

\* C5: an append to the trace, also one that extends the step axis, pads
\* the cluster axis or meets an allocation error, completes, leaves every
\* sample recorded earlier with the same log-likelihood, log-posterior,
\* assignment, concentration and parameter values, and stores sample k at
\* index k
C5_growth_keeps_samples ==
    [][pc = "record" =>
          /\ pc' = "loop"
          /\ \A k \in 1 .. step :
                /\ k <= Len(results.ML)
                /\ k <= Len(results'.ML)
                /\ results'.ML[k] = results.ML[k]
                /\ results'.MAP[k] = results.MAP[k]
                /\ results'.assignments[k] = results.assignments[k]
                /\ results'.DP_alpha[k] = results.DP_alpha[k]
                /\ \A c \in 1 .. results'.width :
                      results'.params[k][c]
                        = IF c <= results.width THEN results.params[k][c]
                          ELSE 0
          /\ step < Len(results'.ML)
          /\ results'.ML[step + 1] = get_ll_full(steps_done + 1)
          /\ results'.MAP[step + 1] = steps_done + 1
          /\ results'.assignments[step + 1] = steps_done + 1
          /\ results'.DP_alpha[step + 1] = steps_done + 1
          /\ \A c \in DOMAIN cells_per_cluster :
                results'.params[step + 1][c + 1] = steps_done + 1]_vars

\* C9: in every run mode a step is one assignment move (split-merge or a
\* Gibbs sweep), then the parameter update, then the concentration update
\* (made or skipped), then one trace append; the loop's stopping test is
\* made only between steps; and every written trace index k holds the
\* state after exactly k completed steps
C9_step_order_and_trace_index ==
    [][/\ pc' = "split_merge" => pc = "do_step"
       /\ pc' = "Gibbs" => pc \in {"do_step", "Gibbs_assign"}
       /\ pc' = "params" => pc \in {"Gibbs_assign", "split_end", "merge_end"}
       /\ pc' = "conc" => pc = "params"
       /\ pc' = "record" => pc = "conc"
       /\ pc' = "loop" => pc \in {"idle", "record"}
       /\ pc' \in {"do_step", "done"} => pc = "loop"
       /\ \A k \in 1 .. Len(results'.MAP) : results'.MAP[k] \in {0, k}]_vars

\* C10: a convergence-based run that has stopped did so at a step counter
\* that is a multiple of 500 and above the minimum-step floor (the
\* diagnostic being at or below the cutoff at that step), its burn-in is
\* that counter integer-divided by 2, and the retained trace has as many
\* samples as were recorded: the initial one and one per completed step
C10_lugsail_stop ==
    (run_var.mode = "lugsail" /\ pc = "done") =>
        /\ step % LugsailEvery = 0
        /\ step > min_steps(run_var.cutoff)
        /\ results.burn_in = step \div 2
        /\ Len(results.ML) = steps_done + 1

\* C11: the final truncation of a wall-clock or convergence-based run
\* removes the unused trailing slots and nothing else: the five arrays of
\* the returned trace have one slot per recorded sample (the initial one
\* and one per completed step), every recorded sample is at its index, and
\* the burn-in index does not exceed the trace length, whatever
\* log-likelihood values were recorded
C11_truncation_drops_only_unused_slots ==
    (run_var.mode \in {"lugsail", "time"} /\ pc = "done") =>
        /\ Len(results.ML) = steps_done + 1
        /\ Len(results.MAP) = steps_done + 1
        /\ Len(results.DP_alpha) = steps_done + 1
        /\ Len(results.assignments) = steps_done + 1
        /\ Len(results.params) = steps_done + 1
        /\ \A k \in 1 .. Len(results.MAP) : results.MAP[k] = k
        /\ results.burn_in <= Len(results.ML)

\* C12: every concentration update leaves DP_alpha at or above
\* 1 + EPSILON and the prior table rebuilt from it; at every step boundary
\* the entry for a cluster size s in 1..N is log(s) - log(N - 1 + alpha)
\* for the current alpha and the last entry is the new-cluster prior, with
\* alpha in place of s; the Gibbs placement reads, for each cluster, the
\* entry indexed by the size the cluster has after the cell's removal
C12_prior_table_follows_alpha ==
    [][LET Holds(table, alpha) ==
               /\ DOMAIN table = 0 .. (cells_total + 1)
               /\ \A s \in 1 .. cells_total :
                     table[s] =
                         log_CRP_prior(<<"size", s>>, cells_total, alpha)
               /\ table[cells_total + 1] =
                      log_CRP_prior(<<"alpha", alpha>>, cells_total, alpha)
       IN
       /\ (pc = "conc" /\ (dpa_prob = "one" \/ DP_alpha' # DP_alpha)) =>
             /\ DP_alpha' >= FloorAlpha
             /\ CRP_prior' = init_DP_prior(DP_alpha')
       /\ StepBoundary => Holds(CRP_prior, DP_alpha)
       /\ StepBoundary' => Holds(CRP_prior', DP_alpha')
       /\ pc = "Gibbs_assign" =>
             /\ \A c \in DOMAIN cells_per_cluster :
                   get_lpost_single_prior[c] =
                       log_CRP_prior(<<"size", Cardinality(CellsOf(c))>>,
                                     cells_total, DP_alpha)
             /\ new_cluster_prior =
                    log_CRP_prior(<<"alpha", DP_alpha>>, cells_total, DP_alpha)
      ]_vars

\* the placement of a cell beside a populated cluster, in a run that has
\* updated the concentration after every step and left it at the floor
C12_placement_after_floored_update ==
    /\ pc = "Gibbs_assign"
    /\ dpa_prob = "one"
    /\ steps_done >= 1
    /\ DP_alpha = FloorAlpha
    /\ DOMAIN cells_per_cluster # {}

\* C13: the split-merge selector splits whenever there is exactly one
\* cluster, merges whenever there are as many clusters as observations, and
\* chooses at random otherwise; a merge is never attempted with fewer than
\* two clusters and a split never where no cluster has two members, for
\* engines of any number of observations from one up
C13_selector_attempts_possible_moves ==
    [][pc = "split_merge" =>
          LET cluster_no == Cardinality(DOMAIN cells_per_cluster) IN
          /\ cluster_no = 1 => pc' = "split"
          /\ cluster_no = cells_total => pc' = "merge"
          /\ pc' \in {"split", "merge"}
          /\ pc' = "merge" => cluster_no >= 2
          /\ pc' = "split" =>
                \E c \in DOMAIN cells_per_cluster : cells_per_cluster[c] >= 2
      ]_vars

\* C14: every MCMC step terminates, from every reachable state and on
\* engines of any number of observations from one up: under fair random
\* choice the re-draw loop of do_split_move is left, and the Gibbs sweep
\* ends after its N reassignments, so a step that has begun returns
C14_every_step_returns ==
    (pc \notin {"idle", "error"}) ~> (pc \in {"idle", "error"})

\* C15: the sizes n_i and n_j that the log-prior ratio of a merge is
\* computed from are the member counts cl_i and cl_j have before the merge;
\* both are at least 1 and they sum to |S| + 2, also when cl_j is a
\* singleton
C15_merge_ratio_sizes_are_member_counts ==
    pc = "merge_MH" =>
        LET sizes == lprior_ratio_merge_sizes(rg.rg_assignment) IN
        /\ sizes.n_i = Cardinality(CellsOf(rg.cl_i))
        /\ sizes.n_j = Cardinality(CellsOf(rg.cl_j))
        /\ sizes.n_i >= 1
        /\ sizes.n_j >= 1
        /\ sizes.n_i + sizes.n_j = Len(rg.S) + 2

\* C18: a row left over from a cluster that is gone is never read: the
\* row of an id is written before the id is entered in the membership
\* table, so every id of the table, and every row that the likelihood, the
\* parameter update, the trace append or a split or merge reads, has been
\* written since the id last became active
C18_only_written_rows_are_read ==
    /\ DOMAIN cells_per_cluster \subseteq written
    /\ rows_read \subseteq written

\* the trace append of the second step of a run reads the row of cluster 0,
\* which was active at the start, empty after the first step, and taken
\* again by a new cluster in the second
C18_reused_id_recorded ==
    /\ pc = "record"
    /\ steps_done = 2
    /\ Len(results.params) >= 2
    /\ results.params[1][1] # 0
    /\ results.params[2][1] = 0
    /\ 0 \in rows_read

\* C19: when a restricted Gibbs scan, or the replay of the split on the
\* merge path, resamples a member of S, the size terms n_i and n_j are the
\* member counts of the two candidate clusters as they are at that point of
\* the scan, without the member and with each cluster's representative:
\* both are at least 1 and they sum to |S| + 1; the replay gives an element
\* the label 0 exactly when it was in cl_i before the merge
C19_scan_size_terms ==
    /\ pc = "rg_scan_place" =>
          LET with(l) == {k \in 1 .. Len(rg.S) : rg.rg_assignment[k] = l} IN
          /\ rg.rg_assignment[rg.obs] = -1
          /\ rg.n_i = Cardinality(with(0)) + 1
          /\ rg.n_j = Cardinality(with(1)) + 1
          /\ rg.n_i >= 1
          /\ rg.n_j >= 1
          /\ rg.n_i + rg.n_j = Len(rg.S) + 1
    /\ (pc \in {"rg_scan", "rg_scan_place", "merge_MH"} /\ rg.move = "merge") =>
          LET replayed == {k \in 1 .. Len(rg.S) :
                             k \notin rg.order /\ rg.rg_assignment[k] # -1} IN
          \A k \in replayed :
              rg.rg_assignment[k] = 0 <=> rg.S[k] \in CellsOf(rg.cl_i)

\* the replay on the merge path takes out the second of two elements of S,
\* the first, from cl_i, having been given its label 0 again before, while
\* the second is from a cl_j of two members
C19_replay_after_earlier_relabel ==
    /\ pc = "rg_scan_place"
    /\ rg.move = "merge"
    /\ Len(rg.S) = 2
    /\ rg.order = {}
    /\ rg.rg_assignment = <<0, -1>>
    /\ rg.n_i = 2
    /\ rg.n_j = 1
    /\ Cardinality(rg.cl_j_cells) = 2

\* C20: a rejected split and a rejected merge change no field of the
\* parameter sampler: no step of the move up to the decision, whatever the
\* scans do on the scratch state, and not the step that follows a
\* rejection, changes params_MH_counter or the candidate step sizes
C20_rejected_move_keeps_sampler ==
    [][(\/ pc \in {"split_merge", "split", "split_rg", "split_MH", "merge",
                    "merge_MH"}
        \/ (pc \in {"split_end", "merge_end"} /\ ~rg.accept))
       => /\ params_MH_counter' = params_MH_counter
          /\ param_proposal_sd' = param_proposal_sd]_vars

\* C16: update_MH_std empties the window and adapts the three candidate
\* step sizes from the window's acceptance ratio: below 0.45 each is
\* divided by the factor, above 0.55 each is multiplied by it and clamped at
\* 1, and when that leaves all three at exactly 1 they are re-seeded with
\* distinct values; from 0.45 to 0.55 they are left as they are
C16_update_MH_std ==
    [][(pc = "idle" /\ pc' = "idle") =>
          LET grown == Grown(param_proposal_sd, DefaultMult) IN
          /\ params_MH_counter' = <<0, 0>>
          /\ RatioBelow(params_MH_counter) =>
                param_proposal_sd' = Shrunk(param_proposal_sd, DefaultMult)
          /\ RatioAbove(params_MH_counter) =>
                IF \A k \in 1 .. 3 : grown[k] = <<1, 1>>
                THEN Cardinality({param_proposal_sd'[k] : k \in 1 .. 3}) = 3
                ELSE param_proposal_sd' = grown
          /\ (~RatioBelow(params_MH_counter) /\ ~RatioAbove(params_MH_counter))
                => param_proposal_sd' = param_proposal_sd
      ]_vars

\* C17: during a run the step sizes are adapted after each full Gibbs
\* sweep: when the run loop begins its next step, a window of accept and
\* reject counts left by the step before, whose acceptance ratio is outside
\* [0.45, 0.55], has changed param_proposal_sd
C17_run_adapts_step_sizes ==
    [][(/\ pc = "loop"
        /\ pc' = "do_step"
        /\ steps_done >= 1
        /\ params_MH_counter # <<0, 0>>
        /\ RatioBelow(params_MH_counter) \/ RatioAbove(params_MH_counter))
       => param_proposal_sd' # param_proposal_sd]_vars

====
